---- MODULE Spec2Model ----
(***************************************************************************)
(* Model of lib/index.js: the deep-proxy view (createDeepProxy), the       *)
(* registration variants (asValue, asFunction, asClass), the memoizer      *)
(* (memoizeWithResolver), getFromContainer and the container assembly      *)
(* (resolveContainer, createContainer).                                    *)
(*                                                                         *)
(* JavaScript values are tagged records:                                   *)
(*   [t |-> "undefined"], [t |-> "number", n], [t |-> "string", s],        *)
(*   [t |-> "object", props]   a plain object, props : key -> value,       *)
(*   [t |-> "function", kind, id],                                         *)
(*   [t |-> "proxy", target, mapping, source]   a view made by createProxy,*)
(*   [t |-> "instance", id, x]   an object made by `new`.                  *)
(* Every call threads the mutable state st = [cache, hist, alloc, log] and *)
(* returns [val, threw, st].                                               *)
(***************************************************************************)
EXTENDS Integers, Sequences, FiniteSets, TLC

VARIABLES registry, cache, hist, alloc, op, made, view, path

vars == <<registry, cache, hist, alloc, op, made, view, path>>

(* ------------------------------ bounds -------------------------------- *)
MaxStack == 6
MaxResolvers == 2
MaxHist == 2
MaxPathLen == 3

(* ------------------------------ values -------------------------------- *)
Undef == [t |-> "undefined"]
Num(n) == [t |-> "number", n |-> n]
Str(s) == [t |-> "string", s |-> s]
Obj(props) == [t |-> "object", props |-> props]
Fun(kind, id) == [t |-> "function", kind |-> kind, id |-> id]
Instance(id, x) == [t |-> "instance", id |-> id, x |-> x]
Empty == [k \in {} |-> Undef]
EmptyObj == Obj(Empty)

isFunction(v) == v.t = "function"
isPlainObject(v) == v.t = "object"
\* typeof item === 'object' && item !== null
isObjectLike(v) == v.t \in {"object", "proxy", "instance"}

\* a function of the test universe: the result of asValue(n), a function
\* that throws, and c => c.x
FnValue(n) == Fun("value", n)
FnThrow == Fun("throw", 0)
FnReadX == Fun("readX", 0)
\* the default of options.mapping: () => ({})
DefaultMapping == Fun("emptyMapping", 0)

(* ------------------------------ lodash -------------------------------- *)
Ret(v, st) == [val |-> v, threw |-> FALSE, st |-> st]
Throw(st) == [val |-> Undef, threw |-> TRUE, st |-> st]

RECURSIVE Join(_)
Join(chars) == IF chars = <<>> THEN "" ELSE Head(chars) \o Join(Tail(chars))

\* stringToPath on a string without brackets: the segments between dots
RECURSIVE Split(_, _)
Split(chars, seg) ==
  IF chars = <<>> THEN <<Join(seg)>>
  ELSE IF Head(chars) = "." THEN <<Join(seg)>> \o Split(Tail(chars), <<>>)
  ELSE Split(Tail(chars), Append(seg, Head(chars)))

\* castPath: a string with no dot is one key, any other is split
castPath(chars) ==
  IF \A i \in 1..Len(chars) : chars[i] # "." THEN <<Join(chars)>> ELSE Split(chars, <<>>)

\* object[key] on a value that holds no proxy
RawProp(v, key) ==
  IF v.t = "object" THEN (IF key \in DOMAIN v.props THEN v.props[key] ELSE Undef)
  ELSE IF v.t = "instance" /\ key = "x" THEN v.x
  ELSE Undef

\* baseGet: walk the keys while the object is not undefined
RECURSIVE baseGet(_, _)
baseGet(v, keys) ==
  IF keys = <<>> THEN v
  ELSE IF v.t = "undefined" THEN Undef
  ELSE baseGet(RawProp(v, Head(keys)), Tail(keys))

\* _.get(path, object)
Get(chars, v) == baseGet(v, castPath(chars))

\* _.merge(object, source) on the properties of two plain objects
RECURSIVE baseMerge(_, _)
baseMerge(props, src) ==
  [k \in DOMAIN props \union DOMAIN src |->
    IF k \notin DOMAIN src THEN props[k]
    ELSE IF src[k].t = "object"
      THEN Obj(baseMerge(IF k \in DOMAIN props /\ props[k].t = "object"
                         THEN props[k].props ELSE Empty, src[k].props))
    ELSE IF src[k].t = "undefined"
      THEN (IF k \in DOMAIN props THEN props[k] ELSE Undef)
    ELSE src[k]]

\* a source that is no plain object has no enumerable key to merge
merge(props, source) ==
  IF source.t = "object" THEN baseMerge(props, source.props) ELSE props

\* mutant: the two merged objects in the other order, the base winning
mergeAllSwapped(target, mapping) == merge(merge(Empty, mapping), target)

\* _.mergeAll([target, mapping]): merge into a deep clone of target
mergeAll(target, mapping) == merge(merge(Empty, target), mapping)

(* ------------------------- createDeepProxy ---------------------------- *)
\* createProxy(target, mapping = {}) of the view rooted at `source`
createProxy(target, mapping, source) ==
  LET m == IF mapping.t = "undefined" THEN EmptyObj ELSE mapping
  IN [t |-> "proxy", target |-> mergeAll(target, m), mapping |-> m, source |-> source]

createDeepProxy(source, mapping) == createProxy(source, mapping, source)

Arg1(args) == IF Len(args) >= 1 THEN args[1] ELSE Undef

\* mutant: the cache keyed by the container, the first argument
keyByContainer(args) == Arg1(args)

\* the key function handed to memoizeWithResolver: (registered, key) => key
keyResolver(args) == IF Len(args) >= 2 THEN args[2] ELSE Undef

\* cache.set(key, result)
CacheSet(c, key, v) == [k \in DOMAIN c \union {key} |-> IF k = key THEN v ELSE c[k]]

\* one execution of the function (or constructor) a resolver wraps
Executed(i, args, r) ==
  [r.st EXCEPT !.hist[i] = Append(@, [args |-> args, val |-> r.val, threw |-> r.threw])]

RECURSIVE Invoke(_, _, _, _, _)
RECURSIVE ProxyGet(_, _, _, _, _)
RECURSIVE GetProp(_, _, _, _, _)
RECURSIVE memoized(_, _, _, _, _)
RECURSIVE handleFunction(_, _, _, _, _)
RECURSIVE classResolver(_, _, _, _, _)

\* mutant: the function called with the merged object of this level
ProxyGetLevel(reg, p, chars, st, fuel) ==
  LET value == Get(chars, Obj(p.target))
  IN IF isPlainObject(value) THEN Ret(createProxy(value, p.mapping, p.source), st)
     ELSE IF ~isFunction(value) THEN Ret(value, st)
     ELSE Invoke(reg, value, <<Obj(p.target), Str(Join(chars))>>, st, fuel)

\* mutant: a nested view made without the mapping
ProxyGetBare(reg, p, chars, st, fuel) ==
  LET value == Get(chars, Obj(p.target))
  IN IF isPlainObject(value) THEN Ret(createProxy(value, Undef, p.source), st)
     ELSE IF ~isFunction(value) THEN Ret(value, st)
     ELSE Invoke(reg, value, <<p.source, Str(Join(chars))>>, st, fuel)

\* the get trap of the view p, for the property named by chars
ProxyGet(reg, p, chars, st, fuel) ==
  LET value == Get(chars, Obj(p.target))
  IN IF isPlainObject(value) THEN Ret(createProxy(value, p.mapping, p.source), st)
     ELSE IF ~isFunction(value) THEN Ret(value, st)
     ELSE Invoke(reg, value, <<p.source, Str(Join(chars))>>, st, fuel)

\* the JavaScript read v[key]
GetProp(reg, v, key, st, fuel) ==
  IF v.t = "undefined" THEN Throw(st)
  ELSE IF v.t = "proxy" THEN ProxyGet(reg, v, <<key>>, st, fuel)
  ELSE Ret(RawProp(v, key), st)

\* handleFunction = (registered) => fn(createDeepProxy(registered, mapping))
handleFunction(reg, i, registered, st, fuel) ==
  Invoke(reg, reg[i].fn, <<createDeepProxy(registered, reg[i].mapping)>>, st, fuel)

\* mutant: the outcome cached even when the function threw
memoizedAlways(reg, i, args, st, fuel) ==
  LET key == keyResolver(args)
  IN IF key \in DOMAIN st.cache[i] THEN Ret(st.cache[i][key], st)
     ELSE LET r == handleFunction(reg, i, Arg1(args), st, fuel)
              st2 == [Executed(i, args, r) EXCEPT !.cache[i] = CacheSet(@, key, r.val)]
          IN IF r.threw THEN Throw(st2) ELSE Ret(r.val, st2)

\* mutant: one cache shared by every resolver
memoizedShared(reg, i, args, st, fuel) ==
  LET key == keyResolver(args)
  IN IF key \in DOMAIN st.cache[1] THEN Ret(st.cache[1][key], st)
     ELSE LET r == handleFunction(reg, i, Arg1(args), st, fuel)
              st2 == Executed(i, args, r)
          IN IF r.threw THEN Throw(st2)
             ELSE Ret(r.val, [st2 EXCEPT !.cache[1] = CacheSet(@, key, r.val)])

\* the function _.memoize returns for resolver i
memoized(reg, i, args, st, fuel) ==
  LET key == keyResolver(args)
  IN IF key \in DOMAIN st.cache[i] THEN Ret(st.cache[i][key], st)
     ELSE LET r == handleFunction(reg, i, Arg1(args), st, fuel)
              st2 == Executed(i, args, r)
          IN IF r.threw THEN Throw(st2)
             ELSE Ret(r.val, [st2 EXCEPT !.cache[i] = CacheSet(@, key, r.val)])

\* (registered) => new ClassConstructor(createDeepProxy(registered, mapping)),
\* where the constructor is  constructor(c) { this.x = fn(c) }
classResolver(reg, i, args, st, fuel) ==
  LET r == Invoke(reg, reg[i].fn, <<createDeepProxy(Arg1(args), reg[i].mapping)>>, st, fuel)
      st2 == Executed(i, args, r)
  IN IF r.threw THEN Throw(st2)
     ELSE Ret(Instance(st2.alloc + 1, r.val), [st2 EXCEPT !.alloc = @ + 1])

\* the call f(...args); a call deeper than the stack throws a RangeError
Invoke(reg, f, args, st, fuel) ==
  IF fuel = 0 THEN Throw(st)
  ELSE LET st1 == [st EXCEPT !.log = Append(@, [fn |-> f, args |-> args])]
       IN CASE f.kind = "value" -> Ret(Num(f.id), st1)
            [] f.kind = "throw" -> Throw(st1)
            [] f.kind = "readX" -> GetProp(reg, Arg1(args), "x", st1, fuel - 1)
            [] f.kind = "emptyMapping" -> Ret(EmptyObj, st1)
            [] f.kind = "resolver" -> memoized(reg, f.id, args, st1, fuel - 1)
            [] f.kind = "class" -> classResolver(reg, f.id, args, st1, fuel - 1)

(* ------------------------------ state --------------------------------- *)
\* registry[i]: what asFunction / asClass closed over when it made resolver
\* i; cache[i]: the memoize cache of resolver i; hist[i]: the executions of
\* the wrapped function so far; alloc: objects made by `new`; op: the last
\* operation with its arguments, outcome and the calls it made; made: the
\* arguments of the createDeepProxy or getFromContainer call that made the
\* view or accessor in use; view: the value the reads of that view have
\* reached; path: the keys read so far, or the accessor's path.
St == [cache |-> cache, hist |-> hist, alloc |-> alloc, log |-> <<>>]

NoOp == [name |-> "none", in |-> <<>>, out |-> Undef, threw |-> FALSE, log |-> <<>>]

Done(name, in, r) ==
  [name |-> name, in |-> in, out |-> r.val, threw |-> r.threw, log |-> r.st.log]

Prop(k, v) == [j \in {k} |-> v]

HistLen == IF hist = <<>> THEN 0 ELSE Len(hist[1]) + (IF Len(hist) > 1 THEN Len(hist[2]) ELSE 0)
    + (IF Len(hist) > 2 THEN Len(hist[3]) ELSE 0)

\* inputs of the registration variants and of resolver calls
UserFns == {FnReadX}
OptionMappings == {DefaultMapping, Obj(Prop("x", Num(3)))}
CallKeys == {Str("a")}
Containers ==
  {Obj(Prop("x", Num(1))), Obj(Prop("x", Num(2))), Obj(Prop("x", FnThrow))}

Init ==
  /\ registry = <<>>
  /\ cache = <<>>
  /\ hist = <<>>
  /\ alloc = 0
  /\ op = NoOp
  /\ made = <<>>
  /\ view = Undef
  /\ path = <<>>

\* asFunction(fn, { mapping }): a new resolver with an empty cache
asFunction(fn, mapping) ==
  /\ Len(registry) < MaxResolvers
  /\ registry' = Append(registry, [kind |-> "resolver", fn |-> fn, mapping |-> mapping])
  /\ cache' = Append(cache, Empty)
  /\ hist' = Append(hist, <<>>)
  /\ op' = [NoOp EXCEPT !.name = "asFunction", !.in = <<fn, mapping>>,
                        !.out = Fun("resolver", Len(registry) + 1)]
  /\ UNCHANGED <<alloc, made, view, path>>

\* asClass(ClassConstructor, { mapping }): a resolver with no cache at all
asClass(fn, mapping) ==
  /\ Len(registry) < MaxResolvers
  /\ registry' = Append(registry, [kind |-> "class", fn |-> fn, mapping |-> mapping])
  /\ cache' = Append(cache, Empty)
  /\ hist' = Append(hist, <<>>)
  /\ op' = [NoOp EXCEPT !.name = "asClass", !.in = <<fn, mapping>>,
                        !.out = Fun("class", Len(registry) + 1)]
  /\ UNCHANGED <<alloc, made, view, path>>

\* a call resolver(...args) made by a caller of the library
CallResolver(i, args) ==
  /\ HistLen < MaxHist
  /\ LET f == Fun(registry[i].kind, i)
         r == Invoke(registry, f, args, St, MaxStack)
     IN /\ cache' = r.st.cache
        /\ hist' = r.st.hist
        /\ alloc' = r.st.alloc
        /\ op' = Done("call", <<f>> \o args, r)
  /\ UNCHANGED <<registry, made, view, path>>

NextMemo ==
  \/ \E fn \in UserFns : asFunction(fn, DefaultMapping)
  \/ \E fn \in UserFns : asClass(fn, DefaultMapping)
  \/ \E i \in 1..Len(registry), c \in Containers, k \in CallKeys :
       CallResolver(i, <<c, k>>)
  \/ \E i \in 1..Len(registry), c \in Containers : CallResolver(i, <<c>>)

SpecMemo == Init /\ [][NextMemo]_vars

(* ------------------------------ views --------------------------------- *)
\* all objects with keys among K and values among V
Objects(K, V) == UNION {{Obj(f) : f \in [D -> V]} : D \in SUBSET K}

BaseLeaves == {Num(1), FnReadX}
MapLeaves == {Num(2), FnValue(4)}
BaseInner == Objects({"b", "x"}, BaseLeaves)
MapInner ==
  Objects({"b", "x"}, MapLeaves) \union {Obj(Prop("b", Undef)), Obj(Prop("x", Undef))}
Deep == Obj(Prop("b", Obj(Prop("x", Num(1)))))

Sources ==
  {Obj(f) : f \in [{"a"} -> BaseInner \union BaseLeaves \union {Deep}]}
  \union {Obj(f @@ Prop("x", Num(5))) : f \in [{"a"} -> BaseInner \union BaseLeaves]}

MappingProps ==
  {f \in UNION {[D -> MapInner \union MapLeaves \union {Undef}] : D \in SUBSET {"a", "b", "x"}} :
     /\ "a" \in DOMAIN f => f["a"] \in MapInner \union {Num(2)}
     /\ "b" \in DOMAIN f => f["b"] \in {FnValue(4), Obj(Prop("x", Num(2)))}
     /\ "x" \in DOMAIN f => f["x"] \in {Num(2), Undef}}

MapDeep == Obj(Prop("a", Obj(Prop("b", Obj(Prop("x", FnValue(4)))))))
MapDeepTop == Obj(MapDeep.props @@ Prop("b", Obj(Prop("x", Num(2)))))

Mappings ==
  {Undef, DefaultMapping, MapDeep, MapDeepTop} \union {Obj(f) : f \in MappingProps}

ReadKeys == {<<"a">>, <<"b">>, <<"x">>, <<"a", ".", "b">>}

\* p = createDeepProxy(source, mapping); a behaviour follows one view
CreateView(source, mapping) ==
  /\ made = <<>>
  /\ made' = <<source, mapping>>
  /\ view' = createDeepProxy(source, mapping)
  /\ path' = <<>>
  /\ op' = [NoOp EXCEPT !.name = "createDeepProxy", !.in = <<source, mapping>>]
  /\ UNCHANGED <<registry, cache, hist, alloc>>

\* the read view[key] of the view the earlier reads reached
Read(chars) ==
  /\ view.t = "proxy"
  /\ Len(path) < MaxPathLen
  /\ LET r == ProxyGet(registry, view, chars, St, MaxStack)
     IN /\ view' = r.val
        /\ op' = Done("get", <<view, Str(Join(chars))>>, r)
        /\ cache' = r.st.cache
        /\ hist' = r.st.hist
        /\ alloc' = r.st.alloc
  /\ path' = Append(path, chars)
  /\ UNCHANGED <<registry, made>>

NextProxy ==
  \/ \E s \in Sources, m \in Mappings : CreateView(s, m)
  \/ \E k \in ReadKeys : Read(k)

SpecProxy == Init /\ [][NextProxy]_vars

(* ------------------------------ view claims ---------------------------- *)
Root == made[1]
Mapp == made[2]

RECURSIVE Flatten(_)
Flatten(p) == IF p = <<>> THEN <<>> ELSE castPath(Head(p)) \o Flatten(Tail(p))

\* the keys read so far, when every read named one key (no dotted path)
PlainPath == \A j \in 1..Len(path) : Len(castPath(path[j])) = 1
Keys == Flatten(path)
LastKey == Keys[Len(Keys)]
Parents == SubSeq(Keys, 1, Len(Keys) - 1)

TopKeys(m) == IF m.t = "object" THEN DOMAIN m.props ELSE {}

RECURSIVE KeysAnywhere(_)
KeysAnywhere(v) ==
  IF v.t # "object" THEN {}
  ELSE DOMAIN v.props \union UNION {KeysAnywhere(v.props[k]) : k \in DOMAIN v.props}

\* what a function of the views' universe returns when called with (root, key)
ResultOf(f, root) == IF f.kind = "value" THEN Num(f.id) ELSE RawProp(root, "x")

\* the read returned the leaf v: v itself, or the result of calling it
ReadGave(v) ==
  /\ ~op.threw
  /\ v.t \in {"number", "undefined"} => (op.out = v /\ op.log = <<>>)
  /\ v.t = "function" =>
       (Len(op.log) = 1 /\ op.log[1].fn = v /\ op.out = ResultOf(v, Root))
  /\ v.t = "object" => op.out.t = "proxy"

\* base and mapping both define the path read, through plain objects
BothDefineParents ==
  /\ op.name = "get" /\ PlainPath /\ Len(Keys) >= 2
  /\ \A j \in 1..Len(Parents) :
       /\ baseGet(Root, SubSeq(Keys, 1, j)).t = "object"
       /\ baseGet(Mapp, SubSeq(Keys, 1, j)).t = "object"

\* the mapping's leaf wins a conflict; a key of the base alone keeps its value
MappingWins(m) ==
  (LastKey \in DOMAIN m.props /\ m.props[LastKey].t # "object") => ReadGave(m.props[LastKey])

BaseStays(b, m) ==
  (LastKey \notin DOMAIN m.props /\ LastKey \in DOMAIN b.props) => ReadGave(b.props[LastKey])

\* C4 (as claimed): where base and mapping define the same path through
\* plain objects, a key only the base defines reads as its base value, and
\* on a leaf conflict the read gives the mapping's leaf (its result, when it
\* is a function).
C4_Original ==
  BothDefineParents =>
    /\ MappingWins(baseGet(Mapp, Parents))
    /\ BaseStays(baseGet(Root, Parents), baseGet(Mapp, Parents))

\* C4 (amended): the same, provided no key read below the top level is also
\* a top-level key of the mapping, and the mapping's leaf is not undefined.
C4_MergedByKey ==
  (BothDefineParents /\ \A j \in 2..Len(Keys) : Keys[j] \notin TopKeys(Mapp)) =>
    LET b == baseGet(Root, Parents)
        m == baseGet(Mapp, Parents)
    IN /\ (LastKey \in DOMAIN m.props /\ m.props[LastKey] # Undef) => MappingWins(m)
       /\ BaseStays(b, m)

\* base {a: {b: 1}} with mapping {a: {b: () => 4}}: p.a.b = 4
C4_Witness ==
  /\ BothDefineParents
  /\ Root = Obj(Prop("a", Obj(Prop("b", Num(1)))))
  /\ Mapp = Obj(Prop("a", Obj(Prop("b", FnValue(4)))))
  /\ Keys = <<"a", "b">>
  /\ op.out = Num(4)

Overrides(mv) ==
  /\ ReadGave(mv)
  /\ mv.t = "object" => \A j \in DOMAIN mv.props : j \in DOMAIN op.out.target

NestedRead == op.name = "get" /\ Len(path) >= 2 /\ Len(castPath(path[Len(path)])) = 1

\* a key that neither the nested base object nor the mapping holds reads as
\* undefined, without error
MissingIsUndefined ==
  (LastKey \notin KeysAnywhere(Mapp) /\ LastKey \notin TopKeys(baseGet(Root, Parents)))
    => (op.out = Undef /\ ~op.threw /\ op.log = <<>>)

\* C8 (as claimed): in a nested view, every top-level key of the mapping
\* reads as the mapping's value for it (its result, when it is a function; a
\* view holding its keys, when it is an object), whatever the base holds
\* there; and a key held nowhere reads as undefined.
C8_Original ==
  NestedRead =>
    /\ LastKey \in TopKeys(Mapp) => Overrides(Mapp.props[LastKey])
    /\ MissingIsUndefined

\* C8 (amended): the same, for the top-level keys of the mapping whose value
\* is not undefined.
C8_MappingAtEveryDepth ==
  NestedRead =>
    /\ (LastKey \in TopKeys(Mapp) /\ Mapp.props[LastKey] # Undef)
         => Overrides(Mapp.props[LastKey])
    /\ MissingIsUndefined

\* base {a: {x: 1}} with mapping {x: 2}: view.a.x = 2
C8_Witness ==
  /\ op.name = "get"
  /\ Root = Obj(Prop("a", Obj(Prop("x", Num(1)))))
  /\ Mapp = Obj(Prop("x", Num(2)))
  /\ Keys = <<"a", "x">>
  /\ op.out = Num(2)

\* a key held nowhere, read in a nested view
C8_WitnessMissing ==
  /\ op.name = "get" /\ Len(path) = 2 /\ Keys = <<"a", "b">>
  /\ "b" \notin KeysAnywhere(Mapp) /\ Mapp.t = "object" /\ Mapp.props # Empty
  /\ op.out = Undef

(* ------------------------- memoized resolvers ------------------------- *)
SecondArg(args) == IF Len(args) >= 2 THEN args[2] ELSE Undef

IsCallOf(o, kind, i) == o.name = "call" /\ o.in[1] = Fun(kind, i)

NeverThrew(i) == \A m \in 1..Len(hist[i]) : ~hist[i][m].threw

Called(log, f) == \E m \in 1..Len(log) : log[m].fn = f

\* C1: while the wrapped fn has not thrown, a resolver made by asFunction has
\* executed fn at most once per key (second argument), and a call that
\* returns gives the value fn computed in the one execution for that key,
\* whatever container the call passed.
C1_OncePerKey ==
  \A i \in 1..Len(registry) :
    (registry[i].kind = "resolver" /\ NeverThrew(i)) =>
      /\ \A m, n \in 1..Len(hist[i]) :
           m # n => SecondArg(hist[i][m].args) # SecondArg(hist[i][n].args)
      /\ (IsCallOf(op, "resolver", i) /\ ~op.threw) =>
           \E m \in 1..Len(hist[i]) :
             /\ SecondArg(hist[i][m].args) = SecondArg(Tail(op.in))
             /\ hist[i][m].val = op.out

\* a call with container {x: 2} answered with the 1 computed from {x: 1}
C1_Witness ==
  \E i \in 1..Len(registry) :
    /\ IsCallOf(op, "resolver", i) /\ NeverThrew(i)
    /\ op.in[2] = Obj(Prop("x", Num(2)))
    /\ op.out = Num(1)
    /\ Len(hist[i]) = 1

\* C5 (as claimed): a resolver made by asClass instantiates the class at
\* most once per key.
C5_ClassOncePerKey ==
  \A i \in 1..Len(registry) :
    registry[i].kind = "class" =>
      \A m, n \in 1..Len(hist[i]) :
        (m # n /\ ~hist[i][m].threw /\ ~hist[i][n].threw)
          => SecondArg(hist[i][m].args) # SecondArg(hist[i][n].args)

\* C9: a call of a resolver in which fn threw throws too and leaves the
\* resolver's cache as it was; a call with a key that has no entry executes
\* fn (again); and a key has an entry only if an execution with that key
\* returned.
C9_ThrowNotCached ==
  [][\A i \in 1..Len(registry) :
       (registry[i].kind = "resolver" /\ IsCallOf(op', "resolver", i)) =>
         /\ (Len(hist'[i]) > Len(hist[i]) /\ hist'[i][Len(hist'[i])].threw)
              => (op'.threw /\ cache'[i] = cache[i])
         /\ SecondArg(Tail(op'.in)) \notin DOMAIN cache[i]
              => Len(hist'[i]) = Len(hist[i]) + 1
         /\ \A k \in DOMAIN cache'[i] :
              \E m \in 1..Len(hist'[i]) :
                ~hist'[i][m].threw /\ SecondArg(hist'[i][m].args) = k]_vars

\* fn threw for a key, and a later call with that key ran fn again and
\* created the entry
C9_Witness ==
  \E i \in 1..Len(registry) :
    /\ registry[i].kind = "resolver"
    /\ Len(hist[i]) = 2
    /\ hist[i][1].threw /\ ~hist[i][2].threw
    /\ SecondArg(hist[i][1].args) = SecondArg(hist[i][2].args)
    /\ SecondArg(hist[i][2].args) \in DOMAIN cache[i]

\* C10: asFunction gives every resolver an empty cache of its own; a step
\* changes the cache of resolver i only if it called resolver i; a resolver
\* called with a key its own cache lacks executes its own fn and returns
\* that result, whatever the other caches hold; and an entry, once written,
\* is neither removed nor replaced.
C10_OwnCache ==
  [][/\ Len(registry') > Len(registry) => cache'[Len(registry')] = Empty
     /\ \A i \in 1..Len(registry) :
          /\ \A k \in DOMAIN cache[i] :
               k \in DOMAIN cache'[i] /\ cache'[i][k] = cache[i][k]
          /\ cache'[i] # cache[i] =>
               op'.name = "call" /\ Called(op'.log, Fun("resolver", i))
          /\ (IsCallOf(op', "resolver", i) /\ SecondArg(Tail(op'.in)) \notin DOMAIN cache[i]) =>
               /\ Len(hist'[i]) = Len(hist[i]) + 1
               /\ ~op'.threw => op'.out = hist'[i][Len(hist'[i])].val]_vars

\* two resolvers hold different values for the same key
C10_Witness ==
  \E i, j \in 1..Len(registry), k \in {Str("a")} :
    /\ i # j
    /\ k \in DOMAIN cache[i] /\ k \in DOMAIN cache[j]
    /\ cache[i][k] # cache[j][k]

(* --------------------------- getFromContainer -------------------------- *)
\* mutant: the located function returned without being called
getFromContainerRaw(reg, chars, container, st, fuel) == Ret(Get(chars, container), st)

\* getFromContainer(path)(container)
getFromContainer(reg, chars, container, st, fuel) ==
  LET value == Get(chars, container)
  IN IF isFunction(value) THEN Invoke(reg, value, <<container>>, st, fuel)
     ELSE Ret(value, st)

Chars == {"a", "b", "."}

RECURSIVE Strings(_)
Strings(n) ==
  IF n = 0 THEN {<<>>}
  ELSE Strings(n - 1) \union {Append(w, c) : w \in {v \in Strings(n - 1) : Len(v) = n - 1}, c \in Chars}

Resolvers == {Fun(registry[i].kind, i) : i \in 1..Len(registry)}

GetContainers ==
  {EmptyObj, Obj(Prop("a", Num(1)))}
  \union {Obj(Prop("a", Obj(Prop("b", v)))) : v \in {Num(1), FnValue(42), FnThrow}}
  \union {Obj(Prop("a", v) @@ Prop("x", Num(2))) : v \in {FnReadX} \union Resolvers}

\* accessor = getFromContainer(path); a behaviour follows one accessor
GetFromContainer(chars) ==
  /\ made = <<>>
  /\ made' = <<Str(Join(chars))>>
  /\ path' = <<chars>>
  /\ op' = [NoOp EXCEPT !.name = "getFromContainer", !.in = <<Str(Join(chars))>>]
  /\ UNCHANGED <<registry, cache, hist, alloc, view>>

\* accessor(container)
Accessor(container) ==
  /\ made # <<>>
  /\ HistLen < MaxHist
  /\ LET r == getFromContainer(registry, path[1], container, St, MaxStack)
     IN /\ op' = Done("accessor", <<made[1], container>>, r)
        /\ cache' = r.st.cache
        /\ hist' = r.st.hist
        /\ alloc' = r.st.alloc
  /\ UNCHANGED <<registry, made, view, path>>

NextGet ==
  \/ \E fn \in UserFns : asFunction(fn, DefaultMapping)
  \/ \E w \in Strings(MaxPathLen) : GetFromContainer(w)
  \/ \E c \in GetContainers : Accessor(c)

SpecGet == Init /\ [][NextGet]_vars

\* the value a dotted path names in a tree of plain objects
RECURSIVE Lookup(_, _)
Lookup(v, keys) ==
  IF keys = <<>> THEN v
  ELSE IF v.t = "object" /\ Head(keys) \in DOMAIN v.props
    THEN Lookup(v.props[Head(keys)], Tail(keys))
  ELSE Undef

Located == Lookup(op.in[2], Split(path[1], <<>>))

\* C6: getFromContainer(path)(container) returns the value the dotted path
\* names, or, when that value is a function, the outcome of calling it with
\* the container as its only argument, every time; a path that names nothing
\* gives undefined and no error; and the step changes no state, except for
\* what the called function itself does.
C6_Accessor ==
  [][op'.name = "accessor" =>
       /\ ~isFunction(Located') => (op'.out = Located' /\ ~op'.threw /\ op'.log = <<>>)
       /\ isFunction(Located') =>
            /\ op'.log # <<>>
            /\ op'.log[1] = [fn |-> Located', args |-> <<op'.in[2]>>]
            /\ Located'.kind = "value" => (op'.out = Num(Located'.id) /\ ~op'.threw)
            /\ Located'.kind = "throw" => op'.threw
            /\ Located'.kind = "readX" => op'.out = RawProp(op'.in[2], "x")
       /\ (~isFunction(Located') \/ Located'.kind # "resolver")
            => UNCHANGED <<registry, cache, hist, alloc>>]_vars

\* getFromContainer('a.b')({a: {b: () => 42}}) = 42
C6_Witness ==
  /\ op.name = "accessor"
  /\ path = <<<<"a", ".", "b">>>>
  /\ op.in[2] = Obj(Prop("a", Obj(Prop("b", FnValue(42)))))
  /\ op.out = Num(42)

\* getFromContainer('a.b')({}) = undefined
C6_WitnessMissing ==
  /\ op.name = "accessor"
  /\ path = <<<<"a", ".", "b">>>>
  /\ op.in[2] = EmptyObj
  /\ op.out = Undef /\ ~op.threw

(* --------------------------- createContainer --------------------------- *)
\* Object.keys(v) in the insertion order `order`; none for a number or a
\* function
ObjectKeys(v, order) ==
  IF v.t = "object" THEN SelectSeq(order, LAMBDA k : k \in DOMAIN v.props) ELSE <<>>

RECURSIVE resolveContainer(_, _, _, _, _, _)
RECURSIVE forEachKey(_, _, _, _, _, _, _, _)

\* the body of Object.keys(definition).forEach(key => ...) for the keys left
forEachKey(reg, definition, container, keys, result, order, st, fuel) ==
  IF keys = <<>> THEN Ret(Obj(result), st)
  ELSE LET key == Head(keys)
           item == GetProp(reg, container, key, st, fuel)
       IN IF item.threw THEN Throw(item.st)
          ELSE LET inner == IF isObjectLike(item.val)
                            THEN resolveContainer(reg, RawProp(definition, key), container,
                                                  order, item.st, fuel)
                            ELSE Ret(Undef, item.st)
               IN IF inner.threw THEN Throw(inner.st)
                  ELSE forEachKey(reg, definition, container, Tail(keys),
                                  Prop(key, item.val) @@ result, order, inner.st, fuel)

\* resolveContainer(definition, container): Object.keys(undefined) throws
resolveContainer(reg, definition, container, order, st, fuel) ==
  IF definition.t = "undefined" THEN Throw(st)
  ELSE forEachKey(reg, definition, container, ObjectKeys(definition, order), Empty,
                  order, st, fuel)

createContainer(reg, definition, order, st, fuel) ==
  resolveContainer(reg, definition, createDeepProxy(definition, Undef), order, st, fuel)

DefLeaves == {Num(1), FnThrow, FnReadX} \union Resolvers
DefInner == {Obj(Prop(k, l)) : k \in {"b", "x"}, l \in DefLeaves}
Definitions ==
  {Obj(Prop("a", v)) : v \in DefLeaves \union DefInner}
  \union {Obj(Prop("a", v) @@ Prop("x", w)) :
            v \in {FnReadX} \union Resolvers \union DefInner, w \in {Num(2), FnThrow}}
  \union {Obj(Prop("a", v) @@ Prop("x", w)) : v \in Resolvers, w \in Resolvers}
\* the insertion orders that differ on the keys of d
Orders(d) ==
  {<<"a", "b", "x">>} \union (IF "x" \in DOMAIN d.props THEN {<<"x", "b", "a">>} ELSE {})

\* createContainer(definition); a behaviour assembles one container
CreateContainer(definition, order) ==
  /\ op.name # "createContainer"
  /\ LET r == createContainer(registry, definition, order, St, MaxStack)
     IN /\ op' = Done("createContainer", <<definition>>, r)
        /\ cache' = r.st.cache
        /\ hist' = r.st.hist
        /\ alloc' = r.st.alloc
  /\ UNCHANGED <<registry, made, view, path>>

NextContainer ==
  \/ \E fn \in UserFns, m \in OptionMappings : asFunction(fn, m)
  \/ \E fn \in UserFns : asClass(fn, DefaultMapping)
  \/ \E d \in Definitions : \E o \in Orders(d) : CreateContainer(d, o)

SpecContainer == Init /\ [][NextContainer]_vars

\* out is a plain tree with the keys of def at every level, every leaf
\* resolved during the assembly
RECURSIVE Resolved(_, _)
Resolved(def, out) ==
  /\ out.t = "object"
  /\ DOMAIN out.props = DOMAIN def.props
  /\ \A k \in DOMAIN def.props :
       LET d == def.props[k] IN
       /\ d.t = "object" => Resolved(d, out.props[k])
       /\ d.t = "function" => (Called(op.log, d) /\ out.props[k].t # "proxy")
       /\ d.t \notin {"object", "function"} => out.props[k] = d

\* C2 (as claimed): the tree createContainer returns has the keys of the
\* definition at every level and every leaf, at every depth, already
\* resolved.
C2_ResolvedTree ==
  (op.name = "createContainer" /\ ~op.threw) => Resolved(op.in[1], op.out)

RECURSIVE HasThrower(_)
HasThrower(v) ==
  \/ v = FnThrow
  \/ v.t = "object" /\ \E k \in DOMAIN v.props : HasThrower(v.props[k])

\* C3 (as claimed): when a leaf of the definition, at any depth, throws when
\* invoked, createContainer throws and returns nothing.
C3_ThrowAborts ==
  (op.name = "createContainer" /\ HasThrower(op.in[1])) => (op.threw /\ op.out = Undef)

====
